---------------------------- MODULE Spec2Model ----------------------------
(***************************************************************************)
(* A model of the rasterizer of rust-rasterize: Liang-Barsky clipping of   *)
(* lines to pixel cells, the box and the piecewise-polynomial filter, and  *)
(* the parallel (filter piece x scanline) accumulation into the coverage   *)
(* buffer.                                                                 *)
(*                                                                         *)
(* Numbers are IEEE-754 binary32 values (Rust's f32), kept as <<m, e>>     *)
(* meaning m * 2^e with m odd (or <<0, 0>> for zero), and every operation  *)
(* rounds to nearest, ties to even, as the hardware does.  Not modelled:   *)
(* the sign of zero, infinities, NaN and the exponent range (no value of   *)
(* the model comes near it).                                               *)
(***************************************************************************)
EXTENDS Integers, Sequences, FiniteSets, TLC

(***************************************************************************)
(* f32                                                                     *)
(***************************************************************************)

\* The precision of an f32 significand, in bits.
MantBits == 24

Abs(n) == IF n < 0 THEN -n ELSE n
Sgn(n) == IF n < 0 THEN -1 ELSE IF n > 0 THEN 1 ELSE 0
Max2(a, b) == IF a >= b THEN a ELSE b
Min2(a, b) == IF a <= b THEN a ELSE b

RECURSIVE BitLen(_)
BitLen(n) == IF n = 0 THEN 0 ELSE 1 + BitLen(n \div 2)

\* m * 2^e in canonical form: m odd, or <<0, 0>>.
RECURSIVE Norm(_, _)
Norm(m, e) ==
    IF m = 0 THEN <<0, 0>>
    ELSE IF m % 2 = 0 THEN Norm(m \div 2, e + 1)
    ELSE <<m, e>>

\* q, or q + 1 when the remainder r of a division by 2 * half rounds up:
\* above the half, or at the half with sticky or with q odd (ties to even).
RoundUp(q, r, half, sticky) ==
    IF r > half \/ (r = half /\ (sticky \/ q % 2 = 1)) THEN q + 1 ELSE q

\* M * 2^E with the s lowest bits of M rounded away.
RoundShift(M, E, s, sticky) ==
    Norm(RoundUp(M \div (2 ^ s), M % (2 ^ s), 2 ^ (s - 1), sticky), E + s)

RoundBits(M, E, L, sticky) ==
    IF L <= MantBits THEN Norm(M, E) ELSE RoundShift(M, E, L - MantBits, sticky)

\* The f32 nearest to (M + s) * 2^E, where M >= 0 and s is 0, or some value
\* strictly between 0 and 1 when sticky holds (M then has more than
\* MantBits + 1 bits).
RoundMag(M, E, sticky) == RoundBits(M, E, BitLen(M), sticky)

Signed(sg, r) == <<sg * r[1], r[2]>>

FNeg(a) == <<-a[1], a[2]>>

FAbs(a) == <<Abs(a[1]), a[2]>>

\* The position of the leading bit of a non-zero value.
Top(a) == BitLen(Abs(a[1])) + a[2]

\* The low operand's magnitude in units of 2^E, truncated.
AlignLow(m, cut) ==
    IF cut <= 0 THEN m * (2 ^ (-cut))
    ELSE IF cut >= MantBits THEN 0
    ELSE m \div (2 ^ cut)

\* The sum S0 of the aligned operands; with bits of the low operand cut
\* off (sticky) the true sum lies just beyond S0, away from zero when the
\* signs agree and toward zero when they differ.
AddRound(S0, E, sticky, differ) ==
    Signed(Sgn(S0),
           RoundMag(IF sticky /\ differ THEN Abs(S0) - 1 ELSE Abs(S0), E, sticky))

AddAligned(hi, lo, E) ==
    AddRound(hi[1] * (2 ^ (hi[2] - E))
               + Sgn(lo[1]) * AlignLow(Abs(lo[1]), E - lo[2]),
             E, E > lo[2], Sgn(lo[1]) # Sgn(hi[1]))

\* hi has the higher leading bit.  It is aligned in a window of
\* MantBits + 4 bits; what lo has below the window only decides ties.
AddOrdered(hi, lo) ==
    AddAligned(hi, lo, Max2(Min2(hi[2], lo[2]), Top(hi) - (MantBits + 4)))

\* a + b, rounded.
FAdd(a, b) ==
    IF a[1] = 0 THEN b
    ELSE IF b[1] = 0 THEN a
    ELSE IF Top(a) >= Top(b) THEN AddOrdered(a, b)
    ELSE AddOrdered(b, a)

FSub(a, b) == FAdd(a, FNeg(b))

\* a1 * 2^12 + b1 times a2 * 2^12 + b2, as <<H, L>>: H * 2^24 + L.
WideSum(hh, cross, ll) ==
    <<hh + (cross \div 4096) + (((cross % 4096) * 4096 + ll) \div 16777216),
      ((cross % 4096) * 4096 + ll) % 16777216>>

\* |m1| * |m2| for significands whose product does not fit a machine word:
\* schoolbook multiplication on halves of 12 bits.
WideMul(m1, m2) ==
    WideSum((m1 \div 4096) * (m2 \div 4096),
            (m1 \div 4096) * (m2 % 4096) + (m2 \div 4096) * (m1 % 4096),
            (m1 % 4096) * (m2 % 4096))

\* H * 2^24 + L, times 2^e, rounded to the h bits of H and 24 - h of L.
WideRound(H, Lo, e, h) ==
    Norm(RoundUp(H * (2 ^ (MantBits - h)) + (Lo \div (2 ^ h)),
                 Lo % (2 ^ h), 2 ^ (h - 1), FALSE),
         e + h)

WideRoundOf(w, e) == WideRound(w[1], w[2], e, BitLen(w[1]))

MulMag(m1, m2, e) ==
    IF BitLen(m1) + BitLen(m2) <= 30 THEN RoundMag(m1 * m2, e, FALSE)
    ELSE WideRoundOf(WideMul(m1, m2), e)

\* a * b, rounded.
FMul(a, b) ==
    IF a[1] = 0 \/ b[1] = 0 THEN <<0, 0>>
    ELSE Signed(Sgn(a[1]) * Sgn(b[1]), MulMag(Abs(a[1]), Abs(b[1]), a[2] + b[2]))

\* Long division: the quotient q of n by d, developed bit by bit until it
\* has MantBits + 1 bits or the remainder is 0.  <<q, r, k>>: n / d =
\* (q + r / d) * 2^(-k).
RECURSIVE DivBits(_, _, _, _)
DivBits(q, r, d, k) ==
    IF r = 0 \/ q >= 2 ^ MantBits THEN <<q, r, k>>
    ELSE IF 2 * r >= d THEN DivBits(2 * q + 1, 2 * r - d, d, k + 1)
    ELSE DivBits(2 * q, 2 * r, d, k + 1)

DivRound(x, e) == RoundMag(x[1], e - x[3], x[2] # 0)

DivMag(m1, m2, e) == DivRound(DivBits(m1 \div m2, m1 % m2, m2, 0), e)

\* a / b, rounded (b is not zero).
FDiv(a, b) ==
    IF a[1] = 0 THEN <<0, 0>>
    ELSE Signed(Sgn(a[1]) * Sgn(b[1]), DivMag(Abs(a[1]), Abs(b[1]), a[2] - b[2]))

\* The sign of a - b, exactly.
FCmp(a, b) ==
    IF Sgn(a[1]) # Sgn(b[1]) THEN Sgn(Sgn(a[1]) - Sgn(b[1]))
    ELSE IF a[1] = 0 THEN 0
    ELSE IF Top(a) # Top(b) THEN Sgn(a[1]) * Sgn(Top(a) - Top(b))
    ELSE IF a[2] >= b[2] THEN Sgn(a[1] * (2 ^ (a[2] - b[2])) - b[1])
    ELSE Sgn(a[1] - b[1] * (2 ^ (b[2] - a[2])))

FLt(a, b) == FCmp(a, b) < 0
FLe(a, b) == FCmp(a, b) <= 0
FGt(a, b) == FCmp(a, b) > 0

\* An integer as an f32 (usize as f32).
FInt(n) == Signed(Sgn(n), RoundMag(Abs(n), 0, FALSE))

\* n / 2^k, for literals such as 0.5.
FDyadic(n, k) == Norm(n, -k)

Zero == <<0, 0>>
One == <<1, 0>>
Half == <<1, -1>>

\* f32 as usize: truncation toward zero, negative values give 0.
FToUsize(a) ==
    IF a[1] <= 0 THEN 0
    ELSE IF a[2] >= 0 THEN a[1] * (2 ^ a[2])
    ELSE IF -a[2] >= MantBits THEN 0
    ELSE a[1] \div (2 ^ (-a[2]))

(***************************************************************************)
(* Geometry (geometry.rs)                                                  *)
(***************************************************************************)

Point(x, y) == [x |-> x, y |-> y]
Vec2d(x, y) == [x |-> x, y |-> y]
Line(start, end) == [start |-> start, end |-> end]
Rect(x, y, width, height) ==
    [origin |-> Point(x, y), size |-> [width |-> width, height |-> height]]

\* Point - Point, Point + Vec2d, Vec2d * f32, -Vec2d
PointSub(p, q) == Vec2d(FSub(p.x, q.x), FSub(p.y, q.y))
PointAdd(p, v) == Point(FAdd(p.x, v.x), FAdd(p.y, v.y))
VecMul(v, t) == Vec2d(FMul(v.x, t), FMul(v.y, t))
VecNeg(v) == Vec2d(FNeg(v.x), FNeg(v.y))
vec_from_origin(p) == PointSub(p, Point(Zero, Zero))

NormalizeHeight(r) ==
    IF FLt(r.size.height, Zero)
    THEN Rect(r.origin.x, FAdd(r.origin.y, r.size.height),
              r.size.width, FNeg(r.size.height))
    ELSE r

\* normalize negating the sizes and leaving the origin where it was.
normalizeSizeOnly(rect) ==
    Rect(rect.origin.x, rect.origin.y, FAbs(rect.size.width), FAbs(rect.size.height))

normalize(rect) ==
    NormalizeHeight(IF FLt(rect.size.width, Zero)
                    THEN Rect(FAdd(rect.origin.x, rect.size.width), rect.origin.y,
                              FNeg(rect.size.width), rect.size.height)
                    ELSE rect)

\* From<Size> for ImageSize: each side cast with `as usize`.
ImageSize(size) ==
    [width |-> FToUsize(size.width), height |-> FToUsize(size.height)]

(***************************************************************************)
(* Curve for Line (rasterizer.rs)                                          *)
(***************************************************************************)

bounding_box(line) ==
    Rect(line.start.x, line.start.y,
         FSub(line.end.x, line.start.x), FSub(line.end.y, line.start.y))

offset(line, v) == Line(PointAdd(line.start, v), PointAdd(line.end, v))

\* The four (p, q) pairs of the Liang-Barsky algorithm, in the order the
\* code visits them: left, right, top, bottom.
PQPairs(start, delta_x, delta_y, xmin, xmax, ymin, ymax) ==
    << <<FNeg(delta_x), FSub(start.x, xmin)>>,
       <<delta_x, FSub(xmax, start.x)>>,
       <<FNeg(delta_y), FSub(start.y, ymin)>>,
       <<delta_y, FSub(ymax, start.y)>> >>

ClipPQ(line, rect) ==
    PQPairs(line.start,
            FSub(line.end.x, line.start.x), FSub(line.end.y, line.start.y),
            rect.origin.x, FAdd(rect.origin.x, rect.size.width),
            rect.origin.y, FAdd(rect.origin.y, rect.size.height))

\* The candidate parameters q / p of the pairs with p < 0 (pick = 1: entry)
\* or p > 0 (pick = -1: exit), in the order they are pushed.
RECURSIVE Candidates(_, _, _)
Candidates(pq, i, pick) ==
    IF i > Len(pq) THEN <<>>
    ELSE IF pick * FCmp(pq[i][1], Zero) < 0
    THEN <<FDiv(pq[i][2], pq[i][1])>> \o Candidates(pq, i + 1, pick)
    ELSE Candidates(pq, i + 1, pick)

\* The largest (pick = 1) or smallest (pick = -1) element of a sequence of
\* f32 and `best`, as Iterator::max_by / min_by find it.
RECURSIVE Extreme(_, _, _, _)
Extreme(s, i, best, pick) ==
    IF i > Len(s) THEN best
    ELSE IF pick * FCmp(s[i], best) > 0 THEN Extreme(s, i + 1, s[i], pick)
    ELSE Extreme(s, i + 1, best, pick)

\* The entry and exit parameters, or "outside" when the line is parallel to
\* an edge and starts beyond it.
ParamsOf(pq) ==
    IF \E i \in 1..4 : pq[i][1] = Zero /\ FLt(pq[i][2], Zero)
    THEN [outside |-> TRUE, t1 |-> Zero, t2 |-> Zero]
    ELSE [outside |-> FALSE,
          t1 |-> Extreme(Candidates(pq, 1, 1), 1, Zero, 1),
          t2 |-> Extreme(Candidates(pq, 1, -1), 1, One, -1)]

ClipParams(line, rect) == ParamsOf(ClipPQ(line, rect))

\* start + d * t
PointAt(start, d, t) == PointAdd(start, VecMul(d, t))

SegmentOf(start, d, t1, t2) == Line(PointAt(start, d, t1), PointAt(start, d, t2))

\* The part of the line between the parameters t1 and t2.
ClipSegment(line, t1, t2) ==
    SegmentOf(line.start, PointSub(line.end, line.start), t1, t2)

\* The guard of clip_to_rect against a result on the far edge: the code
\* compares with the literal 1.0, whatever the rect.
OnFarEdge(seg, rect) ==
    \/ seg.start.x = One /\ seg.end.x = One
    \/ seg.start.y = One /\ seg.end.y = One

GuardFarEdge(seg, rect) == IF OnFarEdge(seg, rect) THEN <<>> ELSE <<seg>>

\* clip_to_rect without the return for t1 > t2.
ClipWithUnordered(line, rect, c) ==
    IF c.outside THEN <<>>
    ELSE GuardFarEdge(ClipSegment(line, c.t1, c.t2), rect)

ClipWith(line, rect, c) ==
    IF c.outside THEN <<>>
    ELSE IF FGt(c.t1, c.t2) THEN <<>>
    ELSE GuardFarEdge(ClipSegment(line, c.t1, c.t2), rect)

\* Line::clip_to_rect: the empty sequence (None) or one segment (Some).
clip_to_rect(line, rect) == ClipWith(line, rect, ClipParams(line, rect))

PIXEL_RECT == Rect(Zero, Zero, One, One)

\* curves.iter().flat_map(|c| c.offset(v).clip_to_rect(PIXEL_RECT)).collect()
RECURSIVE ClipAll(_, _, _)
ClipAll(curves, i, v) ==
    IF i > Len(curves) THEN <<>>
    ELSE clip_to_rect(offset(curves[i], v), PIXEL_RECT) \o ClipAll(curves, i + 1, v)

\* The fragments of the curves in the frame of the cell at pixel_origin.
CutCell(curves, pixel_origin) ==
    ClipAll(curves, 1, VecNeg(vec_from_origin(pixel_origin)))

\* The cells laid out column by column.
CutCellsColumnMajor(vp, curves, width, height) ==
    [index \in 1..(width * height) |->
        CutCell(curves,
                PointAdd(vp.origin, Vec2d(FInt((index - 1) \div height),
                                          FInt((index - 1) % height))))]

\* Lines 122-136: cell index is at column index % width of row
\* index / width.
CutCells(vp, curves, width, height) ==
    [index \in 1..(width * height) |->
        CutCell(curves,
                PointAdd(vp.origin, Vec2d(FInt((index - 1) % width),
                                          FInt((index - 1) \div width))))]

CutSized(vp, curves, sz) == CutCells(vp, curves, sz.width, sz.height)

\* cut_curves: for every cell of the viewport, row-major, the fragments of
\* the curves in the cell's own frame.
cut_curves(vp, curves) == CutSized(vp, curves, ImageSize(vp.size))

(***************************************************************************)
(* BoxFilter (filter/box_filter.rs)                                        *)
(***************************************************************************)

Two == <<1, 1>>

BoxFilter_new(x, y) ==
    [kind    |-> "box",
     support |-> << <<FNeg(FDiv(x, Two)), FDiv(x, Two)>>,
                    <<FNeg(FDiv(y, Two)), FDiv(y, Two)>> >>,
     area    |-> FMul(x, y)]

\* BoxFilter::eval without the factor 0.5 of the trapezoid.
BoxValueWhole(area, accumulator, xsum) ==
    <<FDiv(FMul(accumulator, xsum), area), FDiv(accumulator, area)>>

BoxValue(area, accumulator, xsum) ==
    <<FDiv(FMul(FMul(Half, accumulator), xsum), area), FDiv(accumulator, area)>>

\* BoxFilter::eval with the difference of the x coordinates for their sum.
BoxFilter_evalDifference(flt, line, piece) ==
    BoxValue(flt.area, FSub(line.end.y, line.start.y),
             FSub(line.end.x, line.start.x))

\* BoxFilter::eval: <<pixel_value, accumulator>>; the filter piece is unused.
BoxFilter_eval(flt, line, piece) ==
    BoxValue(flt.area, FSub(line.end.y, line.start.y),
             FAdd(line.end.x, line.start.x))

(***************************************************************************)
(* DynamicFilter (filter/dynamic_filter.rs)                                *)
(*                                                                         *)
(* line_tiles is an Option: <<>> for None, <<grid>> for Some(grid), where  *)
(* grid[py + 1][px + 1] is the tile of filter piece (px, py).  max_pow is  *)
(* a u8: the build decides whether its arithmetic panics on overflow       *)
(* ("debug") or wraps ("release").                                         *)
(***************************************************************************)

U8 == 256

ParametricLine(ox, oy, vx, vy) == [origin |-> <<ox, oy>>, vector |-> <<vx, vy>>]

\* The four channels in the order power_lookup_4x reads them.
Channel(pl, i) ==
    CASE i = 1 -> pl.origin[1]
      [] i = 2 -> pl.origin[2]
      [] i = 3 -> pl.vector[1]
      [] i = 4 -> pl.vector[2]

\* PowersLookupTable::new panics when `up_to_power - 1` (or `+ 1`)
\* overflows a u8 in a build with overflow checks.
TableNewPanics(up_to_power, bld) ==
    bld = "debug" /\ (up_to_power = 0 \/ up_to_power = U8 - 1)

\* The number of rows PowersLookupTable::new pushes: the identity, the
\* values, and one more for each of the (up_to_power - 1) mod 2^8 rounds.
TableLen(up_to_power) == 2 + ((up_to_power - 1) % U8)

\* Row i of the table, one channel of it: the identity 1, the value, and
\* then accumulator *= values for every further row.
RECURSIVE TableEntry(_, _)
TableEntry(v, i) ==
    IF i = 0 THEN One
    ELSE IF i = 1 THEN v
    ELSE FMul(TableEntry(v, i - 1), v)

\* Row i of the table: the four channels raised to the power i.
TableRow(values, i) ==
    ParametricLine(TableEntry(Channel(values, 1), i), TableEntry(Channel(values, 2), i),
                   TableEntry(Channel(values, 3), i), TableEntry(Channel(values, 4), i))

\* PowersLookupTable::new when it does not panic: the rows from 0.
PowersLookupTable_new(values, up_to_power) ==
    [i \in 0..(TableLen(up_to_power) - 1) |-> TableRow(values, i)]

\* ParametricLine::power_lookup_4x: result[i][j] is channel i of the row
\* that the exponent of monomial j for channel i selects.
power_lookup_4x(table, index_mat) ==
    [i \in 1..4 |-> [j \in 1..4 |-> Channel(table[index_mat[j][i]], i)]]

\* slice.chunks(4): the number of chunks, and chunk c (from 0).
NChunks(n) == (n + 3) \div 4
Chunk(s, c) == SubSeq(s, 4 * c + 1, Min2(4 * c + 4, Len(s)))

\* The batches Tile::evaluate walks: chunks(4) of the coefficients zipped
\* with chunks(4) of the powers.
TileBatches(tile) ==
    0..(Min2(NChunks(Len(tile.coefficients)), NChunks(Len(tile.powers))) - 1)

\* Lane j (from 1) of batch c: the coefficient and the exponents the code
\* loads, zero where a short batch has none.
\* A short batch padded with coefficient 1 instead of 0.
LaneCoeffPaddedOne(tile, c, j) ==
    IF 4 * c + j <= Len(tile.coefficients) THEN tile.coefficients[4 * c + j]
    ELSE One

LaneCoeff(tile, c, j) ==
    IF 4 * c + j <= Len(tile.coefficients) THEN tile.coefficients[4 * c + j]
    ELSE Zero

LanePowers(tile, c, j) ==
    IF 4 * c + j <= Len(tile.powers) THEN tile.powers[4 * c + j]
    ELSE <<0, 0, 0, 0>>

\* Tile::evaluate indexes powers_mat[0..3] when the coefficient chunk is
\* full, and the table with every exponent of the batch.
TileEvalPanics(tile) ==
    \E c \in TileBatches(tile) :
        \/ /\ Len(Chunk(tile.coefficients, c)) = 4
           /\ Len(Chunk(tile.powers, c)) < 4
        \/ \E j \in 1..4, i \in 1..4 :
               LanePowers(tile, c, j)[i] >= TableLen(tile.max_pow)

\* power_lookup_4x and fold for one lane:
\* (((coeff * origin0^a) * origin1^b) * vector0^c) * vector1^d
FoldLane(coeff, pw, values) ==
    FMul(FMul(FMul(FMul(coeff, TableEntry(Channel(values, 1), pw[1])),
                   TableEntry(Channel(values, 2), pw[2])),
              TableEntry(Channel(values, 3), pw[3])),
         TableEntry(Channel(values, 4), pw[4]))

LaneFold(tile, c, j, values) ==
    FoldLane(LaneCoeff(tile, c, j), LanePowers(tile, c, j), values)

\* result = result + fold(...) over the batches up to c, for one lane.
RECURSIVE LaneSum(_, _, _, _)
LaneSum(tile, c, j, values) ==
    IF c < 0 THEN Zero
    ELSE FAdd(LaneSum(tile, c - 1, j, values), LaneFold(tile, c, j, values))

TileLanes(tile, values, last) ==
    FAdd(FAdd(FAdd(LaneSum(tile, last, 1, values), LaneSum(tile, last, 2, values)),
              LaneSum(tile, last, 3, values)),
         LaneSum(tile, last, 4, values))

\* Tile::evaluate: the four lanes summed from lane 0 on.
Tile_evaluate(tile, values) ==
    TileLanes(tile, values, Cardinality(TileBatches(tile)) - 1)

\* Whether the grid has a tile for the filter piece <<px, py>>.
HasTile(grid, piece) ==
    /\ piece[2] + 1 <= Len(grid)
    /\ piece[1] + 1 <= Len(grid[piece[2] + 1])

TileAt(grid, piece) == grid[piece[2] + 1][piece[1] + 1]

TilePanic(tile, bld) ==
    IF TableNewPanics(tile.max_pow, bld) THEN "attempt to subtract with overflow"
    ELSE IF TileEvalPanics(tile) THEN "index out of bounds"
    ELSE "none"

\* Why DynamicFilter::eval panics, or "none".
DynamicFilter_evalPanic(flt, piece, bld) ==
    IF flt.line_tiles = <<>> THEN "This filter cannot rasterize Lines."
    ELSE IF ~HasTile(flt.line_tiles[1], piece) THEN "index out of bounds"
    ELSE TilePanic(TileAt(flt.line_tiles[1], piece), bld)

TileValues(tile, par_line, acc_line, normalization) ==
    <<FMul(Tile_evaluate(tile, par_line), normalization),
      FMul(Tile_evaluate(tile, acc_line), normalization)>>

\* DynamicFilter::eval when it does not panic: <<pixel_value, accumulator>>.
DynamicFilter_eval(flt, line, piece) ==
    TileValues(TileAt(flt.line_tiles[1], piece),
               ParametricLine(line.start.x, line.start.y,
                              FSub(line.end.x, line.start.x),
                              FSub(line.end.y, line.start.y)),
               ParametricLine(One, line.start.y,
                              Zero, FSub(line.end.y, line.start.y)),
               flt.normalization)

\* Evaluate::eval, by the filter's type.
EvalPanic(flt, piece, bld) ==
    IF flt.kind = "box" THEN "none" ELSE DynamicFilter_evalPanic(flt, piece, bld)

Eval(flt, line, piece) ==
    IF flt.kind = "box" THEN BoxFilter_eval(flt, line, piece)
    ELSE DynamicFilter_eval(flt, line, piece)

(***************************************************************************)
(* The program state                                                       *)
(***************************************************************************)

VARIABLES
    pc,          \* where main / rasterize_parallel stands
    build,       \* "debug" (overflow checks) or "release"
    filterDesc,  \* the filter asked for: a box filter, or a description file
    filter,      \* the filter once constructed or deserialized
    viewport,    \* the viewport passed to rasterize_parallel
    curvesIn,    \* the curve list passed to rasterize_parallel
    buffer,      \* the caller's Vec<f32>
    size,        \* ImageSize of the normalized viewport
    pieces,      \* <<x_filt_pieces, y_filt_pieces>>
    curves,      \* the table cut_curves returns
    locks,       \* scanline_buffers: one Mutex per chunk of the buffer
    tasks,       \* the (filter piece, scanline) closures of for_each
    fnIn,        \* argument of a function applied on its own
    fnOut        \* and its result

vars == <<pc, build, filterDesc, filter, viewport, curvesIn, buffer, size,
          pieces, curves, locks, tasks, fnIn, fnOut>>

callVars == <<build, filterDesc, viewport, curvesIn>>
fnVars == <<fnIn, fnOut>>

NoTask == <<>>

(***************************************************************************)
(* main: the filter is built or loaded before anything is rasterized       *)
(***************************************************************************)

\* serde's derived Deserialize for DynamicFilter: the description is taken
\* as it is when it parses; nothing compares support and tile grid.
Deserialize(desc) ==
    IF desc.parses THEN <<"Ok", desc.value>> ELSE <<"Err", "parse error">>

\* main, lines 82-97: BoxFilter::new, or from_reader(file).unwrap().
LoadFilter ==
    /\ pc = "load"
    /\ IF filterDesc.kind = "box"
       THEN /\ filter' = BoxFilter_new(filterDesc.x, filterDesc.y)
            /\ pc' = "ready"
       ELSE IF Deserialize(filterDesc)[1] = "Ok"
       THEN filter' = Deserialize(filterDesc)[2] /\ pc' = "ready"
       ELSE filter' = filter /\ pc' = "load_failed"
    /\ UNCHANGED <<callVars, buffer, size, pieces, curves, locks, tasks, fnVars>>

(***************************************************************************)
(* rasterize_parallel                                                      *)
(***************************************************************************)

\* (support.1 - support.0) as usize
FilterPieces(flt) ==
    <<FToUsize(FSub(flt.support[1][2], flt.support[1][1])),
      FToUsize(FSub(flt.support[2][2], flt.support[2][1]))>>

\* The region whose cells are cut: the viewport widened by the support.
CurvesViewport(vp, flt, p) ==
    [origin |-> PointAdd(vp.origin,
                         Vec2d(FAdd(flt.support[1][1], Half),
                               FAdd(flt.support[2][1], Half))),
     size   |-> [width  |-> FSub(FAdd(vp.size.width, FInt(p[1])), One),
                 height |-> FSub(FAdd(vp.size.height, FInt(p[2])), One)]]

\* Lines 152-173: the viewport is normalized, the buffer cleared and
\* filled with width * height zeros, the filter pieces counted.
Prepare ==
    /\ pc = "ready"
    /\ size' = ImageSize(normalize(viewport).size)
    /\ buffer' = [i \in 1..(size'.width * size'.height) |-> Zero]
    /\ pieces' = FilterPieces(filter)
    /\ pc' = "cut"
    /\ UNCHANGED <<callVars, filter, curves, locks, tasks, fnVars>>

\* Lines 175-188.
CutCurves ==
    /\ pc = "cut"
    /\ curves' = cut_curves(CurvesViewport(normalize(viewport), filter, pieces),
                            curvesIn)
    /\ pc' = "locks"
    /\ UNCHANGED <<callVars, filter, buffer, size, pieces, locks, tasks, fnVars>>

\* buffer.chunks_mut(n): panics when n is 0, else Len / n chunks, rounded up.
ChunkCount(len, n) == (len + n - 1) \div n

\* The items of the parallel iterator: filter_index in
\* 0..x_filt_pieces * y_filt_pieces, mapped to a filter piece, crossed with
\* the enumerated scanline chunks.  A task is <<piece x, piece y, scanline>>.
FilterPieceOf(filter_index, y_filt_pieces) ==
    <<filter_index \div y_filt_pieces, filter_index % y_filt_pieces>>

TaskSet(pcs, nchunks) ==
    {<<FilterPieceOf(fi, pcs[2])[1], FilterPieceOf(fi, pcs[2])[2], sl>> :
        fi \in 0..(pcs[1] * pcs[2] - 1), sl \in 0..(nchunks - 1)}

NewTask == [st |-> "pending", column |-> 0, accumulator |-> Zero,
            pixel_value |-> Zero]

\* Lines 190-209.
MakeLocks ==
    /\ pc = "locks"
    /\ IF size.width = 0
       THEN /\ pc' = "panicked"
            /\ UNCHANGED <<locks, tasks>>
       ELSE LET n == ChunkCount(Len(buffer), size.width)
            IN  /\ locks' = [r \in 1..n |-> [holder |-> NoTask, poisoned |-> FALSE]]
                /\ tasks' = [t \in TaskSet(pieces, n) |-> NewTask]
                /\ pc' = "accumulate"
    /\ UNCHANGED <<callVars, filter, buffer, size, pieces, curves, fnVars>>

\* The task's row lock.
LockOf(t) == t[3] + 1

\* A lock taken without waiting for its holder.
TaskLockBarging(t) ==
    /\ pc = "accumulate"
    /\ tasks[t].st = "pending"
    /\ locks' = [locks EXCEPT ![LockOf(t)].holder = t]
    /\ tasks' = [tasks EXCEPT ![t] = [st |-> "locked",
                                      column |-> size.width - 1,
                                      accumulator |-> Zero,
                                      pixel_value |-> Zero]]
    /\ UNCHANGED <<pc, callVars, filter, buffer, size, pieces, curves, fnVars>>

\* Line 211-212: chunk.lock().unwrap() blocks while the Mutex is held and
\* panics when it is poisoned.
TaskLock(t) ==
    /\ pc = "accumulate"
    /\ tasks[t].st = "pending"
    /\ locks[LockOf(t)].holder = NoTask
    /\ IF locks[LockOf(t)].poisoned
       THEN /\ tasks' = [tasks EXCEPT ![t].st = "panicked"]
            /\ UNCHANGED locks
       ELSE /\ locks' = [locks EXCEPT ![LockOf(t)].holder = t]
            /\ tasks' = [tasks EXCEPT ![t] = [st |-> "locked",
                                              column |-> size.width - 1,
                                              accumulator |-> Zero,
                                              pixel_value |-> Zero]]
    /\ UNCHANGED <<pc, callVars, filter, buffer, size, pieces, curves, fnVars>>

\* Lines 216-218 (from 1, as the table is a sequence here).
CurveIndex(t, column, width, x_filt_pieces) ==
    (t[3] + t[2]) * (width + x_filt_pieces - 1) + (column + t[1]) + 1

\* Lines 220-227: the fragments of the cell evaluated in order, each adding
\* to pixel_value and to the accumulator.  <<pixel_value, accumulator>>.
AddPair(pa, r) == <<FAdd(pa[1], r[1]), FAdd(pa[2], r[2])>>

RECURSIVE EvalCell(_, _, _, _, _)
EvalCell(flt, frags, piece, i, pa) ==
    IF i > Len(frags) THEN pa
    ELSE EvalCell(flt, frags, piece, i + 1,
                  AddPair(pa, Eval(flt, frags[i], piece)))

\* A panic unwinds the closure: the MutexGuard is dropped, which poisons
\* and releases the Mutex.
Unwind(t) ==
    /\ tasks' = [tasks EXCEPT ![t].st = "panicked"]
    /\ locks' = [locks EXCEPT ![LockOf(t)] = [holder |-> NoTask, poisoned |-> TRUE]]

\* pixel_value taking the accumulator after the column's fragments were
\* added to it.
EvaluatedAfter(tk, r) ==
    [tk EXCEPT !.st = "evaluated",
               !.pixel_value = FAdd(r[1], FSub(r[2], tk.accumulator)),
               !.accumulator = r[2]]

Evaluated(tk, r) ==
    [tk EXCEPT !.st = "evaluated", !.pixel_value = r[1], !.accumulator = r[2]]

\* The cell's fragments evaluated for the task: pixel_value starts from
\* the accumulator as the columns to the right left it.
EvalColumn(t, frags) ==
    IF frags # <<>> /\ EvalPanic(filter, <<t[1], t[2]>>, build) # "none"
    THEN Unwind(t)
    ELSE /\ tasks' = [tasks EXCEPT ![t] =
                        Evaluated(tasks[t],
                                  EvalCell(filter, frags, <<t[1], t[2]>>, 1,
                                           <<tasks[t].accumulator,
                                             tasks[t].accumulator>>))]
         /\ UNCHANGED locks

EvalAt(t, idx) ==
    IF idx > Len(curves) THEN Unwind(t) ELSE EvalColumn(t, curves[idx])

\* Lines 215-227: one column's filter evaluations.
TaskEval(t) ==
    /\ pc = "accumulate"
    /\ tasks[t].st = "locked"
    /\ EvalAt(t, CurveIndex(t, tasks[t].column, size.width, pieces[1]))
    /\ UNCHANGED <<pc, callVars, filter, buffer, size, pieces, curves, fnVars>>

\* chunk[column] of the chunk of scanline sl, as an index of the buffer
\* (from 1).
\* The chunk indexed from its right end.
BufIndexMirrored(sl, column, width) == sl * width + (width - 1 - column) + 1

BufIndex(sl, column, width) == sl * width + column + 1

\* Line 229, and the step of the loop to the next column on the left.
TaskWrite(t) ==
    /\ pc = "accumulate"
    /\ tasks[t].st = "evaluated"
    /\ buffer' = [buffer EXCEPT ![BufIndex(t[3], tasks[t].column, size.width)] =
                                    FAdd(@, tasks[t].pixel_value)]
    /\ tasks' = [tasks EXCEPT ![t].column = tasks[t].column - 1,
                              ![t].st = IF tasks[t].column = 0
                                        THEN "finished" ELSE "locked"]
    /\ UNCHANGED <<pc, callVars, filter, size, pieces, curves, locks, fnVars>>

\* The closure ending without its guard being dropped.
TaskUnlockKeepsLock(t) ==
    /\ pc = "accumulate"
    /\ tasks[t].st = "finished"
    /\ tasks' = [tasks EXCEPT ![t].st = "done"]
    /\ UNCHANGED <<pc, callVars, filter, buffer, size, pieces, curves, locks, fnVars>>

\* Line 231: the closure ends and the guard is dropped.
TaskUnlock(t) ==
    /\ pc = "accumulate"
    /\ tasks[t].st = "finished"
    /\ locks' = [locks EXCEPT ![LockOf(t)].holder = NoTask]
    /\ tasks' = [tasks EXCEPT ![t].st = "done"]
    /\ UNCHANGED <<pc, callVars, filter, buffer, size, pieces, curves, fnVars>>

\* for_each returns once every item has run; a panic of any of them is
\* resumed in the caller.
\* for_each returning normally although an item has panicked.
JoinSwallowsPanic ==
    /\ pc = "accumulate"
    /\ \A t \in DOMAIN tasks : tasks[t].st \in {"done", "panicked"}
    /\ pc' = "returned"
    /\ UNCHANGED <<callVars, filter, buffer, size, pieces, curves, locks, tasks, fnVars>>

Join ==
    /\ pc = "accumulate"
    /\ \A t \in DOMAIN tasks : tasks[t].st \in {"done", "panicked"}
    /\ pc' = IF \E t \in DOMAIN tasks : tasks[t].st = "panicked"
             THEN "panicked" ELSE "returned"
    /\ UNCHANGED <<callVars, filter, buffer, size, pieces, curves, locks, tasks, fnVars>>

Next ==
    \/ LoadFilter
    \/ Prepare
    \/ CutCurves
    \/ MakeLocks
    \/ \E t \in DOMAIN tasks : TaskLock(t)
    \/ \E t \in DOMAIN tasks : TaskEval(t)
    \/ \E t \in DOMAIN tasks : TaskWrite(t)
    \/ \E t \in DOMAIN tasks : TaskUnlock(t)
    \/ Join

(***************************************************************************)
(* Inputs                                                                  *)
(***************************************************************************)

\* Vertices of the closed polygons lie on the pixel corners 0..MaxCoord;
\* the lines clipped on their own end on the corners -1..MaxCoord + 1.
MaxCoord == 1
\* A closed polygon has 3..MaxVerts vertices.
MaxVerts == 4
\* A viewport is up to MaxSize wide and high.
MaxSize == 2
\* A call forks up to MaxTasks (filter piece, scanline) tasks.
MaxTasks == 3

P(x, y) == Point(FInt(x), FInt(y))
L(x0, y0, x1, y1) == Line(P(x0, y0), P(x1, y1))

BoxDesc(x, y) == [kind |-> "box", x |-> FInt(x), y |-> FInt(y)]

\* The state before main has built a filter or called rasterize_parallel.
Idle ==
    /\ filter = [kind |-> "unset"]
    /\ size = [width |-> 0, height |-> 0]
    /\ pieces = <<0, 0>>
    /\ curves = <<>>
    /\ locks = <<>>
    /\ tasks = <<>>

NoFn == fnIn = <<>> /\ fnOut = <<>>

Grid == (0..MaxCoord) \X (0..MaxCoord)

\* The closed polygon through the vertices vs: vs[i] -> vs[i+1], and the
\* last back to the first.
Polygon(vs) ==
    [i \in 1..Len(vs) |->
        LET a == vs[i]
            b == vs[(i % Len(vs)) + 1]
        IN  L(a[1], a[2], b[1], b[2])]

SetMin(S) == CHOOSE x \in S : \A y \in S : x <= y
SetMax(S) == CHOOSE x \in S : \A y \in S : x >= y
Xs(vs) == {vs[i][1] : i \in 1..Len(vs)}
Ys(vs) == {vs[i][2] : i \in 1..Len(vs)}

\* The viewport that exactly covers the polygon.
Cover(vs) ==
    Rect(FInt(SetMin(Xs(vs))), FInt(SetMin(Ys(vs))),
         FInt(SetMax(Xs(vs)) - SetMin(Xs(vs))),
         FInt(SetMax(Ys(vs)) - SetMin(Ys(vs))))

Distinct(vs) == \A i, j \in 1..Len(vs) : i # j => vs[i] # vs[j]

\* A closed polygon with distinct vertices on pixel corners, rasterized
\* with BoxFilter::new(1., 1.) over the viewport that exactly covers it.
InitArea ==
    /\ pc = "load"
    /\ build = "release"
    /\ filterDesc = BoxDesc(1, 1)
    /\ \E n \in 3..MaxVerts : \E vs \in [1..n -> Grid] :
        /\ Distinct(vs)
        /\ SetMax(Xs(vs)) > SetMin(Xs(vs))
        /\ SetMax(Ys(vs)) > SetMin(Ys(vs))
        /\ curvesIn = Polygon(vs)
        /\ viewport = Cover(vs)
    /\ buffer = <<>>
    /\ Idle
    /\ NoFn

SpecArea == InitArea /\ [][Next]_vars

(***************************************************************************)
(* Inputs of the general specification                                     *)
(***************************************************************************)

\* Filter descriptions as main reads them from a file.
Support(nx, ny) ==
    << <<FNeg(FDiv(FInt(nx), Two)), FDiv(FInt(nx), Two)>>,
       <<FNeg(FDiv(FInt(ny), Two)), FDiv(FInt(ny), Two)>> >>

DynamicFilter(support, normalization, line_tiles) ==
    [kind |-> "dynamic", name |-> "custom", support |-> support,
     normalization |-> normalization, line_tiles |-> line_tiles]

FileDesc(parses, value) == [kind |-> "file", parses |-> parses, value |-> value]

Tile(coefficients, powers, max_pow) ==
    [coefficients |-> coefficients, powers |-> powers, max_pow |-> max_pow]

\* The constant polynomial c.
ConstTile(c) == Tile(<<c>>, << <<0, 0, 0, 0>> >>, 1)

\* The box kernel as a polynomial: origin_x * vector_y + 0.5 * vector_x * vector_y.
BoxTile == Tile(<<One, Half>>, << <<1, 0, 0, 1>>, <<0, 0, 1, 1>> >>, 1)

Tiny == FDyadic(1, 24)

\* No tile data for lines.
NoTilesFilter == DynamicFilter(Support(1, 1), One, <<>>)
\* One piece, the box kernel.
OneTileFilter == DynamicFilter(Support(1, 1), One, << << <<BoxTile>> >> >>)
\* Two pieces side by side, each half the box kernel.
TwoTileFilter ==
    DynamicFilter(Support(2, 1), Half, << << <<BoxTile, BoxTile>> >> >>)
\* Three pieces side by side with constant kernels 1, 2^-24, 2^-24.
ThreeTileFilter ==
    DynamicFilter(Support(3, 1), One,
                  << << <<ConstTile(One), ConstTile(Tiny), ConstTile(Tiny)>> >> >>)
\* Two pieces one above the other, each half the box kernel.
TallFilter ==
    DynamicFilter(Support(1, 2), Half, << << <<BoxTile>>, <<BoxTile>> >> >>)
\* A support of two pieces over a grid of one tile.
MismatchedFilter == DynamicFilter(Support(2, 1), One, << << <<BoxTile>> >> >>)

FilterDescs ==
    {BoxDesc(1, 1),
     FileDesc(TRUE, NoTilesFilter), FileDesc(TRUE, OneTileFilter),
     FileDesc(TRUE, TwoTileFilter), FileDesc(TRUE, ThreeTileFilter),
     FileDesc(TRUE, TallFilter),
     FileDesc(TRUE, MismatchedFilter), FileDesc(FALSE, OneTileFilter)}

\* The support a description declares.
DescSupport(desc) ==
    IF desc.kind = "box" THEN BoxFilter_new(desc.x, desc.y).support
    ELSE desc.value.support

\* Lines from the top edge y = 0 along it or down to y = MaxSize, and
\* back, starting and ending up to one pixel outside the widest viewport.
CurveLines ==
    {L(x0, 0, x1, 0) : x0, x1 \in -1..MaxSize}
    \cup {L(x0, 0, x1, MaxSize) : x0, x1 \in -1..MaxSize}
    \cup {L(x1, MaxSize, x0, 0) : x0, x1 \in -1..MaxSize}

CurveLists == {<<>>} \cup {<<l>> : l \in CurveLines}

\* What the caller's buffer holds before the call.
OldBuffers == {<<>>, <<One, Two, One, Two, One, Two, One, Two, One, Two>>}

\* A filter, a viewport at the origin of either orientation, no curve or
\* one, and a buffer that may hold values of an earlier call.
Init ==
    /\ pc = "load"
    /\ build = "release"
    /\ filterDesc \in FilterDescs
    /\ \E w, h \in 0..MaxSize, flip \in BOOLEAN :
        /\ FilterPieces([support |-> DescSupport(filterDesc)])[1]
             * FilterPieces([support |-> DescSupport(filterDesc)])[2] * h <= MaxTasks
        /\ viewport = IF flip THEN Rect(FInt(w), FInt(h), FInt(-w), FInt(-h))
                      ELSE Rect(Zero, Zero, FInt(w), FInt(h))
    /\ curvesIn \in CurveLists
    /\ buffer \in OldBuffers
    /\ Idle
    /\ NoFn

Spec == Init /\ [][Next]_vars

(***************************************************************************)
(* Line::clip_to_rect on its own                                           *)
(***************************************************************************)

\* The rect one width to the right and the rect one height below: the
\* cells that share the far edges of rect.
RightOf(rect) ==
    [origin |-> PointAdd(rect.origin, Vec2d(rect.size.width, Zero)),
     size   |-> rect.size]

BelowOf(rect) ==
    [origin |-> PointAdd(rect.origin, Vec2d(Zero, rect.size.height)),
     size   |-> rect.size]

\* One call of clip_to_rect, and the calls for the two neighbouring cells:
\* the entry and exit parameters and the Option returned.
ApplyClip ==
    /\ pc = "clip"
    /\ fnOut' = [params |-> ClipParams(fnIn.line, fnIn.rect),
                 result |-> clip_to_rect(fnIn.line, fnIn.rect),
                 right  |-> clip_to_rect(fnIn.line, RightOf(fnIn.rect)),
                 below  |-> clip_to_rect(fnIn.line, BelowOf(fnIn.rect))]
    /\ pc' = "clipped"
    /\ UNCHANGED <<callVars, filter, buffer, size, pieces, curves, locks, tasks, fnIn>>

ClipGrid == (-1..(MaxCoord + 1)) \X (-1..(MaxCoord + 1))

\* The unit cell, and normalized rects that are not the unit cell.
ClipRects ==
    {PIXEL_RECT}
    \cup {Rect(FInt(x), FInt(y), FInt(w), FInt(h)) : x, y \in 0..1, w, h \in 1..2}

NoCall ==
    /\ build = "release"
    /\ filterDesc = BoxDesc(1, 1)
    /\ viewport = PIXEL_RECT
    /\ curvesIn = <<>>
    /\ buffer = <<>>
    /\ Idle

InitClip ==
    /\ pc = "clip"
    /\ NoCall
    /\ \E a, b \in ClipGrid, rect \in ClipRects :
        fnIn = [line |-> Line(P(a[1], a[2]), P(b[1], b[2])), rect |-> rect]
    /\ fnOut = <<>>

NextClip == ApplyClip

SpecClip == InitClip /\ [][NextClip]_vars

(***************************************************************************)
(* Evaluate::eval on its own                                               *)
(***************************************************************************)

\* One call of eval on a filter: the panic it ends in ("none" when it
\* returns) and the pair returned.
ApplyEval ==
    /\ pc = "eval"
    /\ fnOut' = [panic |-> EvalPanic(filter, fnIn.piece, build),
                 value |-> IF EvalPanic(filter, fnIn.piece, build) = "none"
                           THEN Eval(filter, fnIn.line, fnIn.piece)
                           ELSE <<>>]
    /\ pc' = "evaluated"
    /\ UNCHANGED <<callVars, filter, buffer, size, pieces, curves, locks, tasks, fnIn>>

\* A constant polynomial whose table of powers is asked for up to power 0.
ZeroPowTile == Tile(<<One>>, << <<0, 0, 0, 0>> >>, 0)

ZeroPowFilter == DynamicFilter(Support(1, 1), One, << << <<ZeroPowTile>> >> >>)

Filters ==
    {BoxFilter_new(One, One), BoxFilter_new(Two, Two),
     NoTilesFilter, OneTileFilter, TwoTileFilter, ThreeTileFilter, ZeroPowFilter}

\* The filter, one of its pieces, and a line between pixel corners, which
\* may start where it ends.
InitEval ==
    /\ pc = "eval"
    /\ build \in {"debug", "release"}
    /\ filterDesc = BoxDesc(1, 1)
    /\ viewport = PIXEL_RECT
    /\ curvesIn = <<>>
    /\ buffer = <<>>
    /\ filter \in Filters
    /\ size = [width |-> 0, height |-> 0]
    /\ pieces = FilterPieces(filter)
    /\ curves = <<>>
    /\ locks = <<>>
    /\ tasks = <<>>
    /\ \E a, b \in Grid, px \in 0..(pieces[1] - 1), py \in 0..(pieces[2] - 1) :
        fnIn = [line |-> Line(P(a[1], a[2]), P(b[1], b[2])), piece |-> <<px, py>>]
    /\ fnOut = <<>>

NextEval == ApplyEval

SpecEval == InitEval /\ [][NextEval]_vars

(***************************************************************************)
(* Properties                                                              *)
(***************************************************************************)

\* a and b differ by at most 2^-16.
Near(a, b) == FLe(FAbs(FSub(a, b)), FDyadic(1, 16))

\* The entries of a buffer summed from the first.
RECURSIVE SumSeq(_, _)
SumSeq(s, i) == IF i > Len(s) THEN Zero ELSE FAdd(s[i], SumSeq(s, i + 1))

\* Twice the area the directed lines enclose, by the shoelace formula.
RECURSIVE Shoelace(_, _)
Shoelace(cs, i) ==
    IF i > Len(cs) THEN Zero
    ELSE FAdd(FSub(FMul(cs[i].start.x, cs[i].end.y),
                   FMul(cs[i].end.x, cs[i].start.y)),
              Shoelace(cs, i + 1))

Triangle == <<L(0, 0, 1, 1), L(1, 1, 0, 1), L(0, 1, 0, 0)>>

UnitSquare == <<L(0, 0, 1, 0), L(1, 0, 1, 1), L(1, 1, 0, 1), L(0, 1, 0, 0)>>

\* C1: when rasterize_parallel returns for a closed polygon with vertices
\* on pixel corners, BoxFilter::new(1, 1) and the viewport covering the
\* polygon, the entries of the buffer sum to the polygon's shoelace area
\* (1.0 for the unit square traversed counter-clockwise).
C1_ShoelaceArea ==
    pc = "returned" => Near(SumSeq(buffer, 1), FMul(Half, Shoelace(curvesIn, 1)))

\* C2: with viewport (0,0,1,1), BoxFilter::new(1, 1) and the triangle
\* (0,0)->(1,1), (1,1)->(0,1), (0,1)->(0,0), rasterize_parallel does not
\* panic and returns a buffer of one entry, 0.5.
C2_Triangle ==
    (curvesIn = Triangle /\ viewport = PIXEL_RECT /\ filterDesc = BoxDesc(1, 1))
        => /\ pc # "panicked"
           /\ pc = "returned" => buffer = <<Half>>

C2_TriangleReturned ==
    /\ pc = "returned"
    /\ curvesIn = Triangle
    /\ viewport = PIXEL_RECT
    /\ filter = BoxFilter_new(One, One)
    /\ Len(buffer) = 1

\* The buffer as the tasks leave it when they run one after the other in
\* the order of the iterator: filter pieces outside, scanlines inside.
RECURSIVE SeqColumns(_, _, _, _)
SeqStep(t, column, buf, r) ==
    SeqColumns(t, column - 1, r[2],
               [buf EXCEPT ![BufIndex(t[3], column, size.width)] = FAdd(@, r[1])])

SeqColumns(t, column, acc, buf) ==
    IF column < 0 THEN buf
    ELSE SeqStep(t, column, buf,
                 EvalCell(filter, curves[CurveIndex(t, column, size.width, pieces[1])],
                          <<t[1], t[2]>>, 1, <<acc, acc>>))

SeqTask(k, rows) ==
    <<FilterPieceOf(k \div rows, pieces[2])[1],
      FilterPieceOf(k \div rows, pieces[2])[2], k % rows>>

RECURSIVE SeqTasks(_, _, _)
SeqTasks(k, rows, buf) ==
    IF k >= pieces[1] * pieces[2] * rows THEN buf
    ELSE SeqTasks(k + 1, rows,
                  SeqColumns(SeqTask(k, rows), size.width - 1, Zero, buf))

SequentialBuffer ==
    SeqTasks(0, Len(locks), [i \in 1..(size.width * size.height) |-> Zero])

\* C3: the buffer rasterize_parallel returns does not depend on the order
\* in which the tasks acquire the row locks: whatever the interleaving, it
\* is the buffer of the sequential run.
C3_Deterministic == pc = "returned" => buffer = SequentialBuffer

\* C4: with an empty curve list, rasterize_parallel does not panic, for any
\* viewport and filter, and every entry of the buffer it returns is 0.
C4_EmptyCurves ==
    curvesIn = <<>>
        => /\ pc # "panicked"
           /\ pc = "returned" => \A i \in 1..Len(buffer) : buffer[i] = Zero

\* The cell the task reads at its column.
CellOf(t) == curves[CurveIndex(t, tasks[t].column, size.width, pieces[1])]

\* C5: with a DynamicFilter that has no line tiles, no task gets past the
\* evaluation of a cell that holds a line, and once a task has failed the
\* call does not return normally: it is still running its tasks or has
\* panicked.
C5_NoPartialReturn ==
    filterDesc = FileDesc(TRUE, NoTilesFilter)
        => \A t \in DOMAIN tasks :
            /\ tasks[t].st = "evaluated" => CellOf(t) = <<>>
            /\ tasks[t].st = "panicked" => pc \in {"accumulate", "panicked"}

C5_FailedBesideSibling ==
    /\ pc = "panicked"
    /\ filter = NoTilesFilter
    /\ \E t, u \in DOMAIN tasks :
        tasks[t].st = "panicked" /\ tasks[u].st = "done"

\* Whether the tile grid of a description has as many rows and columns as
\* its support has pieces.
GridMatches(grid, p) ==
    /\ Len(grid) = p[2]
    /\ \A r \in 1..Len(grid) : Len(grid[r]) = p[1]

Consistent(desc) ==
    \/ desc.kind = "box"
    \/ desc.value.line_tiles = <<>>
    \/ GridMatches(desc.value.line_tiles[1], FilterPieces(desc.value))

\* C6: a filter description whose support does not match its tile grid is
\* rejected when it is loaded: rasterization never starts with it.
C6_RejectedAtLoad ==
    ~Consistent(filterDesc) => pc \in {"load", "load_failed"}

\* The sides of the viewport as the call's argument gives them.
ViewWidth == FToUsize(FAbs(viewport.size.width))
ViewHeight == FToUsize(FAbs(viewport.size.height))

\* A task in the step that adds its pixel value to the buffer.
Writes(t) == tasks[t].st = "evaluated" /\ tasks'[t].st # "evaluated"

\* The step changes the buffer at index y * width + x (from 1) by adding
\* pixel_value there, and nowhere else.
WritesOnlyAt(y, x, pixel_value) ==
    /\ Len(buffer') = Len(buffer)
    /\ \A i \in 1..Len(buffer) :
        buffer'[i] = IF i = y * ViewWidth + x + 1
                     THEN FAdd(buffer[i], pixel_value) ELSE buffer[i]

\* C9: when rasterize_parallel has returned, the buffer holds width * height
\* entries whatever it held before, and each task adds the coverage of
\* column x of its scanline y at index y * width + x and nowhere else.
C9_BufferLayout ==
    /\ [](pc = "returned" => Len(buffer) = ViewWidth * ViewHeight)
    /\ [][\A t \in DOMAIN tasks :
            Writes(t) => WritesOnlyAt(t[3], tasks[t].column, tasks[t].pixel_value)]_vars

C9_SecondRowWritten ==
    /\ pc = "returned"
    /\ ViewWidth = 2
    /\ ViewHeight = 2
    /\ filter = BoxFilter_new(One, One)
    /\ buffer[3] # Zero
    /\ buffer[4] # buffer[3]

FMin(a, b) == IF FLe(a, b) THEN a ELSE b
FMax(a, b) == IF FLe(a, b) THEN b ELSE a

XMax(rect) == FAdd(rect.origin.x, rect.size.width)
YMax(rect) == FAdd(rect.origin.y, rect.size.height)

\* The point lies in the rect, its four edges included.
Inside(p, rect) ==
    /\ FLe(rect.origin.x, p.x) /\ FLe(p.x, XMax(rect))
    /\ FLe(rect.origin.y, p.y) /\ FLe(p.y, YMax(rect))

\* The line's bounding box and the rect have a point in common.
BoxesMeet(line, rect) ==
    /\ FLe(FMin(line.start.x, line.end.x), XMax(rect))
    /\ FLe(rect.origin.x, FMax(line.start.x, line.end.x))
    /\ FLe(FMin(line.start.y, line.end.y), YMax(rect))
    /\ FLe(rect.origin.y, FMax(line.start.y, line.end.y))

\* The segment returned has ordered parameters and ends within the rect.
SegmentWithin(out, rect) ==
    /\ FLe(out.params.t1, out.params.t2)
    /\ Inside(out.result[1].start, rect)
    /\ Inside(out.result[1].end, rect)

OnFarEdgeOf(seg, rect) ==
    \/ seg.start.x = XMax(rect) /\ seg.end.x = XMax(rect)
    \/ seg.start.y = YMax(rect) /\ seg.end.y = YMax(rect)

\* The clip has a result to guard: the line is not outside and t1 <= t2.
HasClipped(out) == ~out.params.outside /\ FLe(out.params.t1, out.params.t2)

\* The line runs along the seam between the rect and its right neighbour,
\* over a stretch of the rect's height that is not a single point.
OnSeam(line, rect, out) ==
    /\ line.start.x = XMax(rect)
    /\ line.end.x = XMax(rect)
    /\ HasClipped(out)
    /\ FLt(out.params.t1, out.params.t2)

\* C8: for every rect, clip_to_rect rejects the clipped result exactly when
\* both of its endpoints lie on the rect's far edge, and a segment on the
\* seam of two adjacent cells is kept by exactly one of them.
C8_FarEdgeGuard ==
    pc = "clipped"
        => /\ HasClipped(fnOut)
                => (fnOut.result = <<>>
                      <=> OnFarEdgeOf(ClipSegment(fnIn.line, fnOut.params.t1,
                                                  fnOut.params.t2), fnIn.rect))
           /\ OnSeam(fnIn.line, fnIn.rect, fnOut)
                => (fnOut.result = <<>>) # (fnOut.right = <<>>)

\* C10: for a line with start = end, eval does not panic and returns
\* (0, 0), for every filter and filter piece.
C10_DegenerateIsZero ==
    (pc = "evaluated" /\ fnIn.line.start = fnIn.line.end)
        => fnOut.panic = "none" /\ fnOut.value = <<Zero, Zero>>

(***************************************************************************)
(* PowersLookupTable on its own                                            *)
(***************************************************************************)

\* Tables are asked for up to power MaxPow.
MaxPow == 8

\* One call of PowersLookupTable::new and of lookup_4x on the table: the
\* panic it ends in, the number of rows, the rows up to up_to_power + 1
\* (a release build pushes 257 rows for up_to_power = 0) and the matrix
\* looked up.
ApplyTable ==
    /\ pc = "table"
    /\ fnOut' = IF TableNewPanics(fnIn.up_to_power, build)
                THEN [panic |-> "attempt to subtract with overflow"]
                ELSE [panic  |-> "none",
                      len    |-> TableLen(fnIn.up_to_power),
                      table  |-> [i \in 0..Min2(TableLen(fnIn.up_to_power) - 1,
                                                fnIn.up_to_power + 1) |->
                                     PowersLookupTable_new(fnIn.values,
                                                           fnIn.up_to_power)[i]],
                      lookup |-> power_lookup_4x(
                                     PowersLookupTable_new(fnIn.values,
                                                           fnIn.up_to_power),
                                     fnIn.index_mat)]
    /\ pc' = "tabled"
    /\ UNCHANGED <<callVars, filter, buffer, size, pieces, curves, locks, tasks, fnIn>>

\* Channel values whose powers up to MaxPow + 1 are exact in f32.
ChannelValues ==
    {ParametricLine(a, b, c, d) :
        a \in {One, Two}, b \in {FDyadic(3, 1), FInt(-3)},
        c \in {Zero, FInt(3)}, d \in {Half, FInt(-1)}}

\* Four monomials with exponents up to top, shifted by k.
IndexMat(k, top) ==
    [j \in 1..4 |-> [i \in 1..4 |-> (k + i * j) % (top + 1)]]

InitTable ==
    /\ pc = "table"
    /\ build \in {"debug", "release"}
    /\ filterDesc = BoxDesc(1, 1)
    /\ viewport = PIXEL_RECT
    /\ curvesIn = <<>>
    /\ buffer = <<>>
    /\ Idle
    /\ \E values \in ChannelValues, up_to_power \in 0..MaxPow, k \in 0..3 :
        fnIn = [values |-> values, up_to_power |-> up_to_power,
                index_mat |-> IndexMat(k, up_to_power)]
    /\ fnOut = <<>>

NextTable == ApplyTable

SpecTable == InitTable /\ [][NextTable]_vars

\* The i-th power of an f32, from the exact integer power of its
\* significand.
PowerOf(v, i) ==
    IF i = 0 THEN One
    ELSE Signed(IF v[1] < 0 /\ i % 2 = 1 THEN -1 ELSE 1,
                RoundMag(Abs(v[1]) ^ i, v[2] * i, FALSE))

PowersOf(values, i) ==
    ParametricLine(PowerOf(Channel(values, 1), i), PowerOf(Channel(values, 2), i),
                   PowerOf(Channel(values, 3), i), PowerOf(Channel(values, 4), i))

\* The table has the rows values^0 .. values^top and no other.
HoldsPowers(out, values, top) ==
    /\ out.len = top + 1
    /\ \A i \in 0..top : out.table[i] = PowersOf(values, i)

\* Entry (channel i, monomial j) of the lookup is the power of channel i
\* that monomial j asks for.
LooksUp(out, values, index_mat) ==
    \A i, j \in 1..4 :
        out.lookup[i][j] = PowerOf(Channel(values, i), index_mat[j][i])

\* C11: for every max_pow from 0 to MaxPow, PowersLookupTable::new
\* completes with the rows values^0 .. values^max_pow, and lookup_4x
\* returns for each monomial and channel the power its exponent selects.
C11_PowerTable ==
    pc = "tabled"
        => /\ fnOut.panic = "none"
           /\ HoldsPowers(fnOut, fnIn.values, fnIn.up_to_power)
           /\ LooksUp(fnOut, fnIn.values, fnIn.index_mat)

(***************************************************************************)
(* Tile::evaluate on its own                                               *)
(***************************************************************************)

\* A tile has up to MaxMonomials (coefficient, exponents) pairs.
MaxMonomials == 8

\* One call of Tile::evaluate with the table of the tile's max_pow.
ApplyTile ==
    /\ pc = "tile"
    /\ fnOut' = IF TileEvalPanics(fnIn.tile)
                THEN [panic |-> "index out of bounds", value |-> Zero]
                ELSE [panic |-> "none",
                      value |-> Tile_evaluate(fnIn.tile, fnIn.values)]
    /\ pc' = "tiled"
    /\ UNCHANGED <<callVars, filter, buffer, size, pieces, curves, locks, tasks, fnIn>>

\* The pairs a tile is built from: 1, 2^-24, and 0.5 * o0 * v0^2 * v1.
Monomials ==
    {<<One, <<0, 0, 0, 0>> >>, <<Tiny, <<0, 0, 0, 0>> >>, <<Half, <<1, 0, 2, 1>> >>}

TileOf(ms) ==
    Tile([i \in 1..Len(ms) |-> ms[i][1]], [i \in 1..Len(ms) |-> ms[i][2]], 2)

InitTile ==
    /\ pc = "tile"
    /\ build = "release"
    /\ filterDesc = BoxDesc(1, 1)
    /\ viewport = PIXEL_RECT
    /\ curvesIn = <<>>
    /\ buffer = <<>>
    /\ Idle
    /\ \E n \in 0..MaxMonomials :
        \E ms \in [1..n -> Monomials] :
            \E values \in {ParametricLine(Two, One, FInt(3), FInt(-1)),
                           ParametricLine(One, Two, Half, FInt(4))} :
                fnIn = [tile |-> TileOf(ms), values |-> values]
    /\ fnOut = <<>>

NextTile == ApplyTile

SpecTile == InitTile /\ [][NextTile]_vars

\* Monomial i of the tile at the values: the coefficient times the four
\* channel powers.
Term(tile, values, i) ==
    FMul(tile.coefficients[i],
         FMul(FMul(PowerOf(Channel(values, 1), tile.powers[i][1]),
                   PowerOf(Channel(values, 2), tile.powers[i][2])),
              FMul(PowerOf(Channel(values, 3), tile.powers[i][3]),
                   PowerOf(Channel(values, 4), tile.powers[i][4]))))

\* The unbatched scalar loop: the monomials added one after the other.
RECURSIVE ScalarLoop(_, _, _, _)
ScalarLoop(tile, values, i, sum) ==
    IF i > Len(tile.coefficients) THEN sum
    ELSE ScalarLoop(tile, values, i + 1, FAdd(sum, Term(tile, values, i)))

\* The monomials i, i + 4, i + 8, ... added one after the other.
RECURSIVE EveryFourth(_, _, _, _)
EveryFourth(tile, values, i, sum) ==
    IF i > Len(tile.coefficients) THEN sum
    ELSE EveryFourth(tile, values, i + 4, FAdd(sum, Term(tile, values, i)))

\* Every monomial once: the four sums of every fourth monomial, added.
LaneGrouped(tile, values) ==
    FAdd(FAdd(FAdd(EveryFourth(tile, values, 1, Zero),
                   EveryFourth(tile, values, 2, Zero)),
              EveryFourth(tile, values, 3, Zero)),
         EveryFourth(tile, values, 4, Zero))

\* a and b differ by at most 2^-10.
Close(a, b) == FLe(FAbs(FSub(a, b)), FDyadic(1, 10))

\* C12 as stated: Tile::evaluate returns what the unbatched scalar loop
\* over the monomials returns, for any number of monomials.
C12_EqualsScalarLoop ==
    pc = "tiled"
        => /\ fnOut.panic = "none"
           /\ fnOut.value = ScalarLoop(fnIn.tile, fnIn.values, 1, Zero)

\* C12 amended: Tile::evaluate adds every monomial exactly once, every
\* fourth monomial into one lane and then the four lanes, a padded lane
\* adding 0; this is the scalar loop's result for up to 4 monomials and
\* within rounding of it for more.
C12_EveryMonomialOnce ==
    pc = "tiled"
        => /\ fnOut.panic = "none"
           /\ fnOut.value = LaneGrouped(fnIn.tile, fnIn.values)
           /\ Close(fnOut.value, ScalarLoop(fnIn.tile, fnIn.values, 1, Zero))
           /\ Len(fnIn.tile.coefficients) <= 4
                => fnOut.value = ScalarLoop(fnIn.tile, fnIn.values, 1, Zero)

C12_ShortSecondBatch ==
    /\ pc = "tiled"
    /\ Len(fnIn.tile.coefficients) = 5
    /\ fnOut.panic = "none"
    /\ fnOut.value # Zero
    /\ fnOut.value # ScalarLoop(fnIn.tile, fnIn.values, 1, Zero)

(***************************************************************************)
(* BoxFilter on its own                                                    *)
(***************************************************************************)

\* BoxFilter::new(width, height) and one eval of the filter it returns.
ApplyBox ==
    /\ pc = "box"
    /\ filter' = BoxFilter_new(fnIn.width, fnIn.height)
    /\ fnOut' = BoxFilter_eval(filter', fnIn.line, fnIn.piece)
    /\ pc' = "boxed"
    /\ UNCHANGED <<callVars, buffer, size, pieces, curves, locks, tasks, fnIn>>

BoxSides == {Half, One, Two, FInt(3), FInt(-2)}

InitBox ==
    /\ pc = "box"
    /\ build = "release"
    /\ filterDesc = BoxDesc(1, 1)
    /\ viewport = PIXEL_RECT
    /\ curvesIn = <<>>
    /\ buffer = <<>>
    /\ Idle
    /\ \E a, b \in ClipGrid, w, h \in BoxSides, px \in 0..1 :
        fnIn = [line |-> Line(P(a[1], a[2]), P(b[1], b[2])),
                width |-> w, height |-> h, piece |-> <<px, 0>>]
    /\ fnOut = <<>>

NextBox == ApplyBox

SpecBox == InitBox /\ [][NextBox]_vars

\* a and b differ by at most 2^-17, less than 1e-5.
Within(a, b) == FLe(FAbs(FSub(a, b)), FDyadic(1, 17))

\* value times width * height is what the line alone gives.
TimesArea(value, in) == FMul(value, FMul(in.width, in.height))

\* C13: BoxFilter::eval returns pixel_value = 0.5 * (end.y - start.y) *
\* (end.x + start.x) / (width * height) and accumulator = (end.y - start.y)
\* / (width * height), whatever the piece, and the support of the filter
\* is ((-width/2, width/2), (-height/2, height/2)).
C13_BoxFormula ==
    pc = "boxed"
        => /\ Within(TimesArea(fnOut[1], fnIn),
                     FMul(FMul(FSub(fnIn.line.end.y, fnIn.line.start.y),
                               FAdd(fnIn.line.start.x, fnIn.line.end.x)), Half))
           /\ Within(TimesArea(fnOut[2], fnIn),
                     FSub(fnIn.line.end.y, fnIn.line.start.y))
           /\ filter.support =
                << <<FMul(fnIn.width, FNeg(Half)), FMul(fnIn.width, Half)>>,
                   <<FMul(fnIn.height, FNeg(Half)), FMul(fnIn.height, Half)>> >>

C13_WideBoxEvaluated ==
    /\ pc = "boxed"
    /\ fnIn.width = FInt(3)
    /\ fnIn.height = Two
    /\ fnIn.piece = <<1, 0>>
    /\ fnOut[1] # Zero
    /\ fnOut[2] # fnOut[1]

(***************************************************************************)
(* Rect::normalize on its own                                              *)
(***************************************************************************)

\* One call of normalize, and a second call on its result.
ApplyNormalize ==
    /\ pc = "normalize"
    /\ fnOut' = [rect |-> normalize(fnIn), again |-> normalize(normalize(fnIn))]
    /\ pc' = "normalized"
    /\ UNCHANGED <<callVars, filter, buffer, size, pieces, curves, locks, tasks, fnIn>>

\* Sides between pixel corners in either direction, and two small sides
\* that f32 cannot add to 1 exactly.
RectSides ==
    {FInt(n) : n \in (-(MaxCoord + 1))..(MaxCoord + 1)}
    \cup {FNeg(FDyadic(1, 25)), FNeg(FDyadic(3, 26))}

InitRect ==
    /\ pc = "normalize"
    /\ NoCall
    /\ \E x, y \in -1..(MaxCoord + 1), w, h \in RectSides :
        fnIn = Rect(FInt(x), FInt(y), w, h)
    /\ fnOut = <<>>

NextRect == ApplyNormalize

SpecRect == InitRect /\ [][NextRect]_vars

\* a + b without rounding.
ExactSum(a, b) ==
    Norm(a[1] * 2 ^ (a[2] - Min2(a[2], b[2])) + b[1] * 2 ^ (b[2] - Min2(a[2], b[2])),
         Min2(a[2], b[2]))

\* The interval from o to o + s is the interval from no to no + ns.
SameInterval(o, s, no, ns) ==
    IF FLt(s, Zero)
    THEN no = ExactSum(o, s) /\ ExactSum(no, ns) = o
    ELSE no = o /\ ns = s

SameRegion(r, n) ==
    /\ SameInterval(r.origin.x, r.size.width, n.origin.x, n.size.width)
    /\ SameInterval(r.origin.y, r.size.height, n.origin.y, n.size.height)

\* f32 adds the rect's origin and size without rounding.
ExactCorner(r) ==
    /\ FAdd(r.origin.x, r.size.width) = ExactSum(r.origin.x, r.size.width)
    /\ FAdd(r.origin.y, r.size.height) = ExactSum(r.origin.y, r.size.height)

NonNegative(r) == FLe(Zero, r.size.width) /\ FLe(Zero, r.size.height)

\* The sides keep their lengths, the origin does not move right or down,
\* and the far corner is within 2^-16 of the input's.
SameUpToRounding(r, n) ==
    /\ n.size.width = FAbs(r.size.width)
    /\ n.size.height = FAbs(r.size.height)
    /\ FLe(n.origin.x, r.origin.x)
    /\ FLe(n.origin.y, r.origin.y)
    /\ Near(FAdd(n.origin.x, n.size.width),
            FMax(r.origin.x, FAdd(r.origin.x, r.size.width)))
    /\ Near(FAdd(n.origin.y, n.size.height),
            FMax(r.origin.y, FAdd(r.origin.y, r.size.height)))

\* C14 as stated: normalize returns a rect of non-negative size that
\* covers the same region as its input, returns a rect of non-negative
\* size unchanged, and is idempotent.
C14_SameRegion ==
    pc = "normalized"
        => /\ NonNegative(fnOut.rect)
           /\ SameRegion(fnIn, fnOut.rect)
           /\ NonNegative(fnIn) => fnOut.rect = fnIn
           /\ fnOut.again = fnOut.rect

\* C14 amended: normalize returns a rect of non-negative size with sides
\* as long as the input's and the origin at its top-left corner as f32
\* rounds origin + size; it covers the same region when that sum is exact;
\* a rect of non-negative size is returned unchanged; normalize is
\* idempotent.
C14_SameRegionWhenExact ==
    pc = "normalized"
        => /\ NonNegative(fnOut.rect)
           /\ SameUpToRounding(fnIn, fnOut.rect)
           /\ ExactCorner(fnIn) => SameRegion(fnIn, fnOut.rect)
           /\ NonNegative(fnIn) => fnOut.rect = fnIn
           /\ fnOut.again = fnOut.rect

C14_BothSidesFlipped ==
    /\ pc = "normalized"
    /\ fnIn = Rect(Two, One, FInt(-2), FInt(-1))
    /\ fnOut.rect = Rect(Zero, Zero, Two, One)

(***************************************************************************)
(* Properties of the accumulation                                          *)
(***************************************************************************)

\* The pixel values (k = 1) or the accumulator terms (k = 2) of the
\* fragments of a cell, added from the first.
RECURSIVE SumOf(_, _, _, _, _)
SumOf(frags, piece, k, i, sum) ==
    IF i > Len(frags) THEN sum
    ELSE SumOf(frags, piece, k, i + 1, FAdd(sum, Eval(filter, frags[i], piece)[k]))

\* A task in the step that takes its row lock, and in the step that
\* evaluates the fragments of its column.
Locks(t) == tasks[t].st = "pending" /\ tasks'[t].st = "locked"
Evaluates(t) == tasks[t].st = "locked" /\ tasks'[t].st = "evaluated"

\* The sweep starts at the rightmost column with accumulator 0.
StartsRight(t) ==
    tasks'[t].column = ViewWidth - 1 /\ tasks'[t].accumulator = Zero

\* The accumulator grows by the accumulator terms of the column.
Accumulates(t) ==
    Near(tasks'[t].accumulator,
         FAdd(tasks[t].accumulator, SumOf(CellOf(t), <<t[1], t[2]>>, 2, 1, Zero)))

\* The write adds pixel_value to the entry of the column and moves on to
\* the column on the left.
AddsAndMovesLeft(t) ==
    /\ buffer'[t[3] * ViewWidth + tasks[t].column + 1]
         = FAdd(buffer[t[3] * ViewWidth + tasks[t].column + 1], tasks[t].pixel_value)
    /\ tasks'[t].column = tasks[t].column - 1

\* What every step of a task does, but for the accumulator taken.
Sweeps(t) ==
    /\ Locks(t) => StartsRight(t)
    /\ Evaluates(t) => Accumulates(t)
    /\ Writes(t) => AddsAndMovesLeft(t)

\* C15 as stated: the amount a task adds for a column is the sum of the
\* pixel values of the cell's fragments plus the running accumulator taken
\* after this column's fragments have been added to it.
C15_AccumulatorAfter ==
    [][\A t \in DOMAIN tasks :
        /\ Sweeps(t)
        /\ Evaluates(t)
            => Near(tasks'[t].pixel_value,
                    FAdd(SumOf(CellOf(t), <<t[1], t[2]>>, 1, 1, Zero),
                         tasks'[t].accumulator))]_vars

\* C15 amended: the amount a task adds for a column is the sum of the
\* pixel values of the cell's fragments plus the running accumulator taken
\* before this column's fragments are added to it: the accumulator terms
\* of the columns to its right only.
C15_AccumulatorBefore ==
    [][\A t \in DOMAIN tasks :
        /\ Sweeps(t)
        /\ Evaluates(t)
            => Near(tasks'[t].pixel_value,
                    FAdd(SumOf(CellOf(t), <<t[1], t[2]>>, 1, 1, Zero),
                         tasks[t].accumulator))]_vars

C15_CarriedFromRight ==
    /\ pc = "accumulate"
    /\ filter = BoxFilter_new(One, One)
    /\ \E t \in DOMAIN tasks :
        /\ tasks[t].st = "evaluated"
        /\ tasks[t].column = 0
        /\ CellOf(t) # <<>>
        /\ tasks[t].pixel_value # SumOf(CellOf(t), <<t[1], t[2]>>, 1, 1, Zero)
        /\ tasks[t].accumulator # FSub(tasks[t].pixel_value,
                                       SumOf(CellOf(t), <<t[1], t[2]>>, 1, 1, Zero))

\* C16: a task holds its row lock only while it writes: whenever a task
\* holds a row lock, it has evaluated its column and is writing the value,
\* and never has a filter evaluation ahead of it.
C16_LockOnlyForWrite ==
    \A t \in DOMAIN tasks :
        locks[t[3] + 1].holder = t => tasks[t].st \in {"evaluated", "finished"}

\* The task is between taking its row lock and releasing it.
InSection(t) == tasks[t].st \in {"locked", "evaluated", "finished"}

\* Lock r (from 0) guards the entries r * width .. r * width + width - 1
\* (from 0): entry i (from 1) is guarded by lock r.
GuardedBy(i, r) == (i - 1) \div ViewWidth = r

\* A task in its section holds the lock of its scanline, so no two tasks
\* of a scanline are in their sections together.
HoldsOwnLock ==
    \A t \in DOMAIN tasks : InSection(t) <=> locks[t[3] + 1].holder = t

\* A write changes one entry, guarded by the lock of the task's scanline.
WritesOwnRow(t) ==
    \A i \in 1..Len(buffer) : buffer'[i] # buffer[i] => GuardedBy(i, t[3])

\* Taking a lock changes the lock of the task's scanline and no other.
LocksOwnRow(t) ==
    \A r \in 1..Len(locks) : locks'[r] # locks[r] => r = t[3] + 1

\* C17: there are height locks, each guarding the width entries of one row,
\* which together are the buffer; a task writes only entries guarded by the
\* lock of its scanline, holding it; tasks of different scanlines take
\* different locks.
C17_RowLocks ==
    /\ [](pc = "accumulate"
            => /\ Len(locks) = ViewHeight
               /\ Len(locks) * ViewWidth = Len(buffer)
               /\ \A i \in 1..Len(buffer) :
                    \E r \in 0..(Len(locks) - 1) :
                        \A q \in 0..(Len(locks) - 1) : GuardedBy(i, q) <=> q = r
               /\ HoldsOwnLock)
    /\ [][\A t \in DOMAIN tasks :
            /\ Writes(t) => locks[t[3] + 1].holder = t /\ WritesOwnRow(t)
            /\ Locks(t) => LocksOwnRow(t)]_vars

C17_ContendedRow ==
    /\ pc = "accumulate"
    /\ Len(locks) = 1
    /\ \E t, u \in DOMAIN tasks :
        /\ t # u
        /\ t[3] = u[3]
        /\ tasks[t].st = "evaluated"
        /\ tasks[u].st = "pending"
        /\ locks[t[3] + 1].holder = t

(***************************************************************************)
(* The call under fair scheduling: rayon's workers run every item of the   *)
(* parallel iterator, and a blocked lock() returns once the Mutex is free, *)
(* so a step that stays possible is eventually taken                       *)
(***************************************************************************)

\* No curve, or a diagonal through the widest viewport from one pixel
\* outside it.
FairLists == {<<>>, <<L(-1, 0, MaxSize, MaxSize)>>}

InitFair ==
    /\ pc = "load"
    /\ build = "release"
    /\ filterDesc \in FilterDescs
    /\ \E w, h \in 0..MaxSize :
        /\ FilterPieces([support |-> DescSupport(filterDesc)])[1]
             * FilterPieces([support |-> DescSupport(filterDesc)])[2] * h <= MaxTasks
        /\ viewport = Rect(Zero, Zero, FInt(w), FInt(h))
    /\ curvesIn \in FairLists
    /\ buffer = <<>>
    /\ Idle
    /\ NoFn

NextFair ==
    \/ LoadFilter
    \/ Prepare
    \/ CutCurves
    \/ MakeLocks
    \/ \E t \in DOMAIN tasks : TaskLock(t)
    \/ \E t \in DOMAIN tasks : TaskEval(t)
    \/ \E t \in DOMAIN tasks : TaskWrite(t)
    \/ \E t \in DOMAIN tasks : TaskUnlock(t)
    \/ Join

\* A task has taken its row lock and has an evaluation ahead: the state
\* in which TaskEval is possible.
Evaluating ==
    pc = "accumulate" /\ \E t \in DOMAIN tasks : tasks[t].st = "locked"

\* Weak fairness of every step.  For CutCurves and TaskEval it is written
\* out by the definition of WF, with the condition under which the step is
\* possible in place of ENABLED.
Fairness ==
    /\ WF_vars(LoadFilter)
    /\ WF_vars(Prepare)
    /\ []<>(pc # "cut") \/ []<><<CutCurves>>_vars
    /\ WF_vars(MakeLocks)
    /\ WF_vars(\E t \in DOMAIN tasks : TaskLock(t))
    /\ []<>(~Evaluating) \/ []<><<\E t \in DOMAIN tasks : TaskEval(t)>>_vars
    /\ WF_vars(\E t \in DOMAIN tasks : TaskWrite(t))
    /\ WF_vars(\E t \in DOMAIN tasks : TaskUnlock(t))
    /\ WF_vars(Join)

SpecFair == InitFair /\ [][NextFair]_vars /\ Fairness

\* One task for each filter piece in [0, x_pieces) x [0, y_pieces) and
\* each scanline.
PieceScanlines ==
    {<<px, py, sl>> : px \in 0..(FilterPieces(filter)[1] - 1),
                      py \in 0..(FilterPieces(filter)[2] - 1),
                      sl \in 0..(ViewHeight - 1)}

Forked == pc = "accumulate" /\ DOMAIN tasks = PieceScanlines
          /\ Cardinality(DOMAIN tasks)
               = FilterPieces(filter)[1] * FilterPieces(filter)[2] * ViewHeight

Ended(t) == tasks[t].st \in {"done", "panicked"}

LocksHeldBy(t) == {r \in 1..Len(locks) : locks[r].holder = t}

\* No filter evaluation of the call fails.
NoFailure ==
    \A t \in DOMAIN tasks : \A column \in 0..(size.width - 1) :
        /\ CurveIndex(t, column, size.width, pieces[1]) <= Len(curves)
        /\ \/ curves[CurveIndex(t, column, size.width, pieces[1])] = <<>>
           \/ EvalPanic(filter, <<t[1], t[2]>>, build) = "none"

\* A task that has ended is not run again, and a task ends normally only
\* by giving up the lock it holds.
RunsOnce(t) ==
    /\ Ended(t) => tasks'[t] = tasks[t]
    /\ tasks'[t].st = "done" /\ tasks[t].st # "done"
         => locks[t[3] + 1].holder = t /\ locks'[t[3] + 1].holder = NoTask

\* C18: the accumulate stage forks exactly x_pieces * y_pieces * height
\* tasks, one for each filter piece and scanline, each run once and holding
\* at most one lock and ending normally only by releasing its row lock;
\* under fair scheduling the stage ends, when no evaluation fails with
\* every task done, and the call returns only after all of them have
\* ended, with every lock free.
C18_ForkJoin ==
    /\ [](pc = "accumulate" => Forked)
    /\ [](\A t \in DOMAIN tasks : Cardinality(LocksHeldBy(t)) <= 1)
    /\ [][\A t \in DOMAIN tasks : RunsOnce(t)]_vars
    /\ [](pc = "returned"
            => /\ \A t \in DOMAIN tasks : tasks[t].st = "done"
               /\ \A r \in 1..Len(locks) : locks[r].holder = NoTask)
    /\ [](pc = "panicked"
            => /\ \A t \in DOMAIN tasks : Ended(t)
               /\ \A r \in 1..Len(locks) : locks[r].holder = NoTask)
    /\ (pc = "accumulate") ~> (pc \in {"returned", "panicked"})
    /\ (pc = "accumulate" /\ NoFailure) ~> (pc = "returned")

C18_AllJoined ==
    /\ pc = "returned"
    /\ Cardinality(DOMAIN tasks) = MaxTasks
    /\ \E t, u \in DOMAIN tasks : t # u /\ t[3] = u[3]
    /\ \E t \in DOMAIN tasks : tasks[t].pixel_value # Zero

\* The expanded region: the normalized viewport moved by the lower end of
\* the support plus half a pixel; its cells are unit squares.
ExpandedOrigin ==
    PointAdd(normalize(viewport).origin,
             Vec2d(FAdd(filter.support[1][1], Half),
                   FAdd(filter.support[2][1], Half)))

\* The fragments of the curves in the cell at column col and row row of
\* the expanded region.
ExpandedCell(col, row) ==
    CutCell(curvesIn, PointAdd(ExpandedOrigin, Vec2d(FInt(col), FInt(row))))

ExpandedWidth == ViewWidth + FilterPieces(filter)[1] - 1
ExpandedHeight == ViewHeight + FilterPieces(filter)[2] - 1

\* The sizes the tasks work with are those of the viewport and the filter.
SizesKept ==
    /\ size.width = ViewWidth
    /\ size.height = ViewHeight
    /\ pieces = FilterPieces(filter)

\* (scanline + piece_y) * (width + x_pieces - 1) + (column + piece_x)
ReadIndex(t, column) ==
    (t[3] + t[2]) * (size.width + pieces[1] - 1) + (column + t[1])

\* The index the task reads for the column is the claimed one, within the
\* table and in its own row.
ReadsOwnCell(t, column) ==
    /\ CurveIndex(t, column, size.width, pieces[1]) = ReadIndex(t, column) + 1
    /\ ReadIndex(t, column) < Len(curves)
    /\ column + t[1] < size.width + pieces[1] - 1
    /\ t[3] + t[2] < size.height + pieces[2] - 1

\* The table as cut_curves returns it holds, row by row, the cells of the
\* expanded region.
TableIsExpandedRegion ==
    /\ Len(curves) = ExpandedWidth * ExpandedHeight
    /\ \A row \in 0..(ExpandedHeight - 1) : \A col \in 0..(ExpandedWidth - 1) :
        curves[row * ExpandedWidth + col + 1] = ExpandedCell(col, row)

\* C19: the cut table has (width + x_pieces - 1) * (height + y_pieces - 1)
\* cells, entry row * (width + x_pieces - 1) + col being the cell at column
\* col and row row of the expanded region; the table stays as it was cut,
\* and the index a task computes for a column,
\* (scanline + piece_y) * (width + x_pieces - 1) + (column + piece_x), is
\* within the table and in the row scanline + piece_y.
C19_CutTable ==
    /\ [](pc = "locks" => TableIsExpandedRegion)
    /\ [][(pc = "locks" \/ pc = "accumulate") => curves' = curves]_vars
    /\ [](pc = "accumulate"
            => /\ SizesKept
               /\ \A t \in DOMAIN tasks : \A column \in 0..(size.width - 1) :
                    ReadsOwnCell(t, column))

C19_SecondRowRead ==
    /\ pc = "accumulate"
    /\ ExpandedHeight = 2
    /\ ExpandedWidth = 2
    /\ \E t \in DOMAIN tasks :
        /\ t[2] = 1
        /\ tasks[t].st = "evaluated"
        /\ tasks[t].column = 0
        /\ CellOf(t) # <<>>
        /\ tasks[t].pixel_value # Zero

=============================================================================
